---- MODULE Spec2Model ----
(***************************************************************************)
(* Core.registerPlugins of plugin-system-poc (the Core class with          *)
(* registration options, src/unnamed/part_002 lines 19-279), as a state    *)
(* machine.  One call of registerPlugins is a run through                  *)
(*   idle -> register* -> init* -> afterInit* -> pluginData -> notify*     *)
(*        -> commit -> idle                                                *)
(* with one step per plugin hook the call invokes, so that the order of    *)
(* the hooks is observable.  A call whose dependency check throws is one   *)
(* step from idle to idle.                                                 *)
(***************************************************************************)
EXTENDS Integers, Sequences, FiniteSets, TLC

VARIABLES
    dependencyGraph,   \* Core.dependencyGraph: dependency name -> seq of names
    plugins,           \* Core.plugins: exposed key -> exposed value
    availablePlugins,  \* Core.availablePlugins: seq of names
    rawPlugins,        \* Core.rawPlugins: seq of [plugin, options] pairs
    pc,                \* position inside registerPlugins
    normalizedPlugins, \* the batch of the call in progress (or of the last call)
    i,                 \* index of the next member / raw record of the current loop
    pluginData,        \* the argument built for onPluginRegister
    core,              \* per plugin object: its field `core` (the view it stored)
    hookLog,           \* hooks invoked by the call in progress (or the last call)
    notified,          \* per record of a call that ran to its end: the plugin, the
                       \* call, and the times onPluginRegister was invoked through
                       \* the raw record at the same index
    calls,             \* number of calls that ran to their end
    result,            \* outcome of the last call: what it returned or threw
    registrations,     \* the pairs whose name registration ran, in order
    atRegister,        \* this.plugins as it was when register was last invoked
    thrown,            \* number of calls ended by an error of a plugin hook
    heap,              \* the objects and arrays the Core constructor allocated
    instance,          \* the fields of each Core instance: references into heap
    outcome,           \* of each instance: its last call and what it registered
    metadataRead,      \* per member of the batch: what each read of its metadata
                       \* accessor returned during the call, in order
    written            \* per plugin object: the properties it assigned on the
                       \* view it stored

vars == <<dependencyGraph, plugins, availablePlugins, rawPlugins, pc,
          normalizedPlugins, i, pluginData, core, hookLog, notified, calls, result,
          registrations, atRegister, thrown, heap, instance, outcome,
          metadataRead, written>>

\* the state of the Core instances apart from the one followed step by step
instances == <<heap, instance, outcome>>

----------------------------------------------------------------------------
(* Bounds of the model.                                                    *)

\* at most this many plugin records over all batches that pass validation
MaxRegistered == 3
\* at most this many calls that run to their end
MaxCalls == 3
\* at most this many members in one batch
MaxBatch == 2
\* at most this many calls ended by an error of a plugin hook
MaxThrown == 1

----------------------------------------------------------------------------
(* JavaScript values.                                                      *)

Undefined == "undefined"
TypeError == "TypeError"
RangeError == "RangeError"
EmptyObject == [x \in {} |-> x]
\* options.name absent (undefined) or the empty string: both falsy in `||`
NoName == ""
\* a reference to the object this.plugins, and an object of its own
CorePlugins == [object |-> "this.plugins", own |-> EmptyObject]
NoView == [getters |-> {}, prototype |-> CorePlugins, built |-> FALSE]

\* UTF-16 code units of the names used, for Array.prototype.sort's default order
CodeUnits(s) ==
    CASE s = "a" -> <<97>>
      [] s = "b" -> <<98>>
      [] s = "c" -> <<99>>
      [] s = "d" -> <<100>>
      [] s = "e" -> <<101>>
      [] s = "f" -> <<102>>
      [] s = "g" -> <<103>>
      [] s = "h" -> <<104>>
      [] s = "k" -> <<107>>
      [] s = "plugins" -> <<112, 108, 117, 103, 105, 110, 115>>
      [] s = "svc" -> <<115, 118, 99>>
      [] s = "t" -> <<116>>
      [] s = "u" -> <<117>>

RECURSIVE SeqLess(_, _)
SeqLess(x, y) ==
    IF y = <<>> THEN FALSE
    ELSE IF x = <<>> THEN TRUE
    ELSE IF Head(x) # Head(y) THEN Head(x) < Head(y)
    ELSE SeqLess(Tail(x), Tail(y))

\* the default comparison of sort(): by code units, a proper prefix first
StringLess(s, t) == SeqLess(CodeUnits(s), CodeUnits(t))

----------------------------------------------------------------------------
(* The plugin objects the caller constructs, and the registration options. *)
(* Names are shortened: a and b stand for circularDependencyA and          *)
(* circularDependencyB.                                                    *)

PluginObjects ==
    {"A", "B", "C", "D", "E", "F", "G", "H", "T", "U",
     "WindowEvents", "Base", "ExamplePlugin", "V"}

\* the metadata getter of each plugin object; the getter of F does not
\* return the same value on every read: F2 stands for its other value
Metadata(p) ==
    CASE p = "A" -> [name |-> "a", provides |-> <<>>, depends |-> <<"b">>]
      [] p = "B" -> [name |-> "b", provides |-> <<>>, depends |-> <<"a">>]
      [] p = "C" -> [name |-> "c", provides |-> <<"svc">>, depends |-> <<>>]
      [] p = "D" -> [name |-> "d", provides |-> <<>>, depends |-> <<"svc", "c">>]
      [] p = "E" -> [name |-> "e", provides |-> <<"svc">>, depends |-> <<"c">>]
      [] p = "F" -> [name |-> "f", provides |-> <<>>, depends |-> <<>>]
      [] p = "F2" -> [name |-> "f", provides |-> <<>>, depends |-> <<"c">>]
      [] p = "G" -> [name |-> "g", provides |-> <<>>, depends |-> <<"k">>]
      [] p = "H" -> [name |-> "h", provides |-> <<"k">>, depends |-> <<>>]
      [] p = "T" -> [name |-> "t", provides |-> <<>>, depends |-> <<>>]
      [] p = "U" -> [name |-> "u", provides |-> <<>>, depends |-> <<"t">>]
      [] p = "WindowEvents" ->
             [name |-> "windowEvents", provides |-> <<"events">>, dependencies |-> <<>>]
      [] p = "Base" -> [name |-> "base", provides |-> <<>>, dependencies |-> <<>>]
      [] p = "ExamplePlugin" ->
             [name |-> "example", provides |-> <<>>, dependencies |-> <<>>]
      [] p = "V" -> [name |-> "v", provides |-> <<>>, dependencies |-> <<"events">>]

\* what one read of the metadata accessor of a plugin object may return
MetadataValues(p) == IF p = "F" THEN {"F", "F2"} ELSE {p}

\* the batch with the metadata one pass over it reads: ([{ metadata }]) => ...
ReadMetadata(batch) ==
    {seen \in [1..Len(batch) ->
                   UNION {MetadataValues(batch[x].plugin) : x \in 1..Len(batch)}] :
        \A x \in 1..Len(batch) : seen[x] \in MetadataValues(batch[x].plugin)}

\* a batch as one pass sees it: each member with the metadata it read
Seen(batch, seen) ==
    [x \in 1..Len(batch) |-> [plugin |-> seen[x], options |-> batch[x].options]]

\* the hooks that may throw: E's register fails on some invocations, and so
\* do T's init, afterInit and onPluginRegister
MayThrow(p, hook) ==
    \/ p = "E" /\ hook = "register"
    \/ p = "T" /\ hook \in {"init", "afterInit", "onPluginRegister"}

\* register(plugins) { this.core = plugins; return this; }
RegisterReturn(p) == p

NoOptions == [name |-> NoName, overrides |-> EmptyObject]

\* the plugin/options pairs a batch is made of
Pairs ==
    { [plugin |-> "A", options |-> NoOptions],
      [plugin |-> "B", options |-> NoOptions],
      [plugin |-> "C", options |-> NoOptions],
      [plugin |-> "C", options |-> [name |-> "k", overrides |-> EmptyObject]],
      [plugin |-> "C", options |-> [name |-> "plugins", overrides |-> EmptyObject]],
      [plugin |-> "D", options |-> [name |-> NoName, overrides |-> ("svc" :> "k")]] }

\* the pairs of the calls in which two plugins meet on one key: C and E both
\* provide svc, E takes the key k that C can take, or the key svc itself
PairsOnSharedKeys ==
    { [plugin |-> "C", options |-> NoOptions],
      [plugin |-> "C", options |-> [name |-> "k", overrides |-> EmptyObject]],
      [plugin |-> "D", options |-> [name |-> NoName, overrides |-> ("svc" :> "k")]],
      [plugin |-> "E", options |-> [name |-> "k", overrides |-> EmptyObject]],
      [plugin |-> "E", options |-> [name |-> "svc", overrides |-> EmptyObject]] }

RECURSIVE SeqsUpTo(_, _)
SeqsUpTo(S, n) ==
    IF n = 0 THEN {<<>>}
    ELSE LET shorter == SeqsUpTo(S, n - 1)
         IN  shorter \cup {Append(q, x) : q \in shorter, x \in S}

Range(q) == {q[x] : x \in 1..Len(q)}

----------------------------------------------------------------------------
(* The dependency check (lines 120-156).                                   *)

\* Set.prototype.add on a Set kept in insertion order
SetAdd(set, x) == IF x \in Range(set) THEN set ELSE Append(set, x)

RECURSIVE SetAddAll(_, _)
SetAddAll(set, q) ==
    IF q = <<>> THEN set ELSE SetAddAll(SetAdd(set, Head(q)), Tail(q))

\* the dependencies list read as `depends`, or else as `dependencies`
DependsOf_OrDependencies(metadata) ==
    IF "depends" \in DOMAIN metadata
    THEN [defined |-> TRUE, value |-> metadata.depends]
    ELSE [defined |-> TRUE, value |-> metadata.dependencies]

\* metadata.depends: undefined when the metadata object has no such property
DependsOf(metadata) ==
    IF "depends" \in DOMAIN metadata
    THEN [defined |-> TRUE, value |-> metadata.depends]
    ELSE [defined |-> FALSE, value |-> <<>>]

\* metadata.depends.forEach(...) on a batch: a TypeError when depends is
\* undefined for a member
DependsUndefined(batch) ==
    \E x \in 1..Len(batch) : ~DependsOf(Metadata(batch[x].plugin)).defined

\* requiredDependencies after the forEach over the batch
RECURSIVE RequiredDependencies(_, _)
RequiredDependencies(required, batch) ==
    IF batch = <<>> THEN required
    ELSE RequiredDependencies(
             SetAddAll(required, DependsOf(Metadata(Head(batch).plugin)).value),
             Tail(batch))

\* the batch's own names left out of the check
AvailableAfter_ExistingOnly(available, batch) == available

\* the local availablePlugins Set after the forEach over the batch
RECURSIVE AvailableAfter(_, _)
AvailableAfter(available, batch) ==
    IF batch = <<>> THEN available
    ELSE LET metadata == Metadata(Head(batch).plugin)
         IN  AvailableAfter(
                 SetAddAll(SetAdd(available, metadata.name), metadata.provides),
                 Tail(batch))

\* the elements of a set of keys as a sequence
RECURSIVE Ascending_Keys(_)
Ascending_Keys(S) ==
    IF S = {} THEN <<>>
    ELSE LET x == CHOOSE y \in S : TRUE IN <<x>> \o Ascending_Keys(S \ {x})

RECURSIVE Filter(_, _)
Filter(q, keep) ==
    IF q = <<>> THEN <<>>
    ELSE IF Head(q) \in keep THEN <<Head(q)>> \o Filter(Tail(q), keep)
    ELSE Filter(Tail(q), keep)

\* the filter without its negation
Difference_Kept(batch) ==
    LET available == AvailableAfter(SetAddAll(<<>>, availablePlugins), batch)
        required  == RequiredDependencies(<<>>, batch)
    IN  Filter(required, Range(required) \cap Range(available))

\* the keys bound in this.plugins counted as available
Difference_OfBoundKeys(batch) ==
    LET bound == SetAddAll(<<>>, Ascending_Keys(DOMAIN plugins))
        available == AvailableAfter(SetAddAll(bound, availablePlugins), batch)
        required  == RequiredDependencies(<<>>, batch)
    IN  Filter(required, Range(required) \ Range(available))

\* [...requiredDependencies].filter((p) => !availablePlugins.has(p))
Difference(batch) ==
    LET available == AvailableAfter(SetAddAll(<<>>, availablePlugins), batch)
        required  == RequiredDependencies(<<>>, batch)
    IN  Filter(required, Range(required) \ Range(available))

\* insertion of x into a sorted sequence
RECURSIVE Insert(_, _)
Insert(sorted, x) ==
    IF sorted = <<>> THEN <<x>>
    ELSE IF StringLess(x, Head(sorted)) THEN <<x>> \o sorted
    ELSE <<Head(sorted)>> \o Insert(Tail(sorted), x)

\* the names left in the order the Set met them
Sort_Unsorted(q) == q

\* Array.prototype.sort() with the default comparison
RECURSIVE Sort(_)
Sort(q) == IF q = <<>> THEN <<>> ELSE Insert(Sort(Tail(q)), Head(q))

\* Array.prototype.join(sep)
RECURSIVE Join(_, _)
Join(q, sep) ==
    IF q = <<>> THEN ""
    ELSE IF Len(q) = 1 THEN Head(q)
    ELSE Head(q) \o sep \o Join(Tail(q), sep)

\* new Error('Unmet dependencies: ' + [...difference.values()].sort().join(', '))
UnmetError(difference) ==
    [status |-> "thrown",
     message |-> "Unmet dependencies: " \o Join(Sort(difference), ", ")]

\* the TypeError of reading a property of undefined, which nothing catches
ThrownTypeError == [status |-> "thrown", message |-> TypeError]
NoCall == [status |-> "none", message |-> ""]
Pending == [status |-> "pending", message |-> ""]
Returned == [status |-> "returned", message |-> ""]
\* an error thrown by a plugin hook, which registerPlugins does not catch
Propagated(hook) == [status |-> "propagated", message |-> hook]

----------------------------------------------------------------------------
(* Name registration (lines 161-238).                                      *)

\* the key taken from the metadata whatever the options say
Key_MetadataName(pair) == Metadata(pair.plugin).name

\* const key = options.name || metadata.name
Key(pair) ==
    IF pair.options.name # NoName THEN pair.options.name
    ELSE Metadata(pair.plugin).name

\* a view whose prototype is a copy of this.plugins taken when it is built
PluginsWithOverrides_Snapshot(options) ==
    [getters |-> DOMAIN options.overrides,
     prototype |-> [object |-> "copy", own |-> plugins], built |-> TRUE]

\* pluginsWithOverrides: an object whose prototype is this.plugins, with one
\* own getter per key of options.overrides.  The getter's body reads only
\* `this` and the override key, so the view is the set of its getters' keys.
PluginsWithOverrides(options) ==
    [getters |-> DOMAIN options.overrides, prototype |-> CorePlugins, built |-> TRUE]

\* the object a reference denotes now
Deref(ref) == IF ref.object = "this.plugins" THEN plugins ELSE ref.own

\* a property of a plugin object: none of the plugins defines a property
\* named like a plugin
PluginProperty(p, prop) == Undefined

\* reading table[key] on the null-prototype object this.plugins
TableGet(table, key) == IF key \in DOMAIN table THEN table[key] ELSE Undefined

\* reading view[key].  An own getter runs `return this.plugins[overrideKey]`
\* with `this` bound to the view itself: `this.plugins` is the view's
\* property named "plugins", and the override key is read on that value.
ViewGet(view, key) ==
    LET table == Deref(view.prototype)
    IN  IF key \in view.getters
        THEN IF "plugins" \in view.getters THEN RangeError
             ELSE IF "plugins" \in DOMAIN table
                  THEN PluginProperty(table["plugins"], key)
                  ELSE TypeError
        ELSE TableGet(table, key)

\* reading p.core[key] once p assigned properties on the view it stored:
\* an own property of the view comes before what it inherits
ViewRead(p, key) ==
    LET view == core[p]
        own == written[p]
        table == Deref(view.prototype)
        thisPlugins == IF "plugins" \in DOMAIN own THEN own["plugins"]
                       ELSE TableGet(table, "plugins")
    IN  IF key \in view.getters
        THEN IF "plugins" \in view.getters THEN RangeError
             ELSE IF thisPlugins = Undefined THEN TypeError
             ELSE PluginProperty(thisPlugins, key)
        ELSE IF key \in DOMAIN own THEN own[key]
        ELSE TableGet(table, key)

\* the assignment made on this.plugins itself, as if the view were the table
Assigned_OnTable(p, key, value) ==
    [table |-> (key :> value) @@ plugins, own |-> written[p]]

\* p.core[key] = value on the object made by Object.create(this.plugins): an
\* own getter of the view or an inherited getter of this.plugins has no
\* setter and the assignment fails; an own data property is written; a key
\* found nowhere becomes an own data property of the view
Assigned(p, key, value) ==
    IF key \in core[p].getters THEN [table |-> plugins, own |-> written[p]]
    ELSE IF key \in DOMAIN written[p]
         THEN [table |-> plugins, own |-> (key :> value) @@ written[p]]
    ELSE IF key \in DOMAIN Deref(core[p].prototype)
         THEN [table |-> plugins, own |-> written[p]]
    ELSE [table |-> plugins, own |-> (key :> value) @@ written[p]]

\* the dependents of a name kept as a Set: a name is not pushed twice
RECURSIVE AddDependencies_NoDuplicates(_, _, _)
AddDependencies_NoDuplicates(graph, depends, name) ==
    IF depends = <<>> THEN graph
    ELSE LET dependency == Head(depends)
             list == IF dependency \in DOMAIN graph THEN graph[dependency] ELSE <<>>
         IN  AddDependencies_NoDuplicates((dependency :> SetAdd(list, name)) @@ graph,
                                          Tail(depends), name)

\* the list of a dependency assigned anew instead of pushed onto
RECURSIVE AddDependencies_Assigned(_, _, _)
AddDependencies_Assigned(graph, depends, name) ==
    IF depends = <<>> THEN graph
    ELSE AddDependencies_Assigned((Head(depends) :> <<name>>) @@ graph,
                                  Tail(depends), name)

\* this.dependencyGraph[dependency].push(metadata.name) for every dependency
RECURSIVE AddDependencies(_, _, _)
AddDependencies(graph, depends, name) ==
    IF depends = <<>> THEN graph
    ELSE LET dependency == Head(depends)
             list == IF dependency \in DOMAIN graph THEN graph[dependency] ELSE <<>>
         IN  AddDependencies((dependency :> Append(list, name)) @@ graph,
                             Tail(depends), name)

\* the property defined only when the key is not bound yet
Expose_IfUnbound(table, key, value) ==
    IF key \in DOMAIN table THEN table ELSE (key :> value) @@ table

\* Object.defineProperty(this.plugins, key, { get() { return value; } })
Expose(table, key, value) == (key :> value) @@ table

\* the alias defined without the test of line 229
ExposeProvided_Unguarded(table, provided, value) == Expose(table, provided, value)

\* if (!(provided in this.plugins)) Object.defineProperty(...)
ExposeProvided(table, provided, value) ==
    IF provided \in DOMAIN table THEN table ELSE Expose(table, provided, value)

RECURSIVE ExposeAllProvided(_, _, _)
ExposeAllProvided(table, provides, value) ==
    IF provides = <<>> THEN table
    ELSE ExposeAllProvided(ExposeProvided(table, Head(provides), value),
                           Tail(provides), value)

\* the provided names left out of this.availablePlugins
PushAvailable_NameOnly(available, metadata) == available \o <<metadata.name>>

\* this.availablePlugins.push(metadata.name), then push(provided) for each
PushAvailable(available, metadata) ==
    available \o <<metadata.name>> \o metadata.provides

\* register invoked after the names of the member are defined
TableAtRegister_AfterExposure(pair) ==
    ExposeAllProvided(Expose(plugins, Key(pair), RegisterReturn(pair.plugin)),
                      Metadata(pair.plugin).provides, RegisterReturn(pair.plugin))

\* this.plugins at line 197, where register is invoked: nothing of the member
\* is exposed yet
TableAtRegister(pair) == plugins

----------------------------------------------------------------------------
(* Notification (lines 262-265).                                           *)

\* the reduce callback: (data, [{ metadata }, { name }]) =>
\*     data[name || metadata.name] = metadata
\* Its value is the value of the assignment expression, the metadata.
ReduceCallback(data, pair) ==
    LET metadata == Metadata(pair.plugin)
        assigned == (Key(pair) :> metadata) @@ data
    IN  metadata

RECURSIVE Reduce(_, _)
Reduce(data, batch) ==
    IF batch = <<>> THEN data
    ELSE Reduce(ReduceCallback(data, Head(batch)), Tail(batch))

PluginData(batch) == Reduce(EmptyObject, batch)

----------------------------------------------------------------------------
(* The state machine.                                                      *)

----------------------------------------------------------------------------
(* Core instances (constructor, lines 23-64). Each new Core() allocates its *)
(* own dependencyGraph, plugins, availablePlugins and rawPlugins; the       *)
(* fields of an instance are references to what it allocated.               *)

CoreIds == {1, 2}

Fields == {"dependencyGraph", "plugins", "availablePlugins", "rawPlugins"}

\* the allocations: one per instance and field, and one per field that a
\* class could hold once for all its instances
Cells == (CoreIds \cup {0}) \X Fields

\* Object.create(null) for the two maps, [] for the two arrays
Allocated(cell) ==
    IF cell[2] \in {"dependencyGraph", "plugins"} THEN EmptyObject ELSE <<>>

\* the arrays held once by the class instead of allocated by each instance
Constructor_SharedArrays(c) ==
    [f \in Fields |->
        IF f \in {"availablePlugins", "rawPlugins"} THEN <<0, f>> ELSE <<c, f>>]

\* constructor(): every field is assigned a fresh allocation
Constructor(c) == [f \in Fields |-> <<c, f>>]

\* this.dependencyGraph, this.plugins, ... of an instance
This(c) == [f \in Fields |-> heap[instance[c][f]]]

\* the dependency check of registerPlugins against this.availablePlugins
UnmetOf(this, batch) ==
    LET available == AvailableAfter(SetAddAll(<<>>, this.availablePlugins), batch)
        required  == RequiredDependencies(<<>>, batch)
    IN  Filter(required, Range(required) \ Range(available))

\* one iteration of the name-registration forEach on the fields of this
RegisterOn(this, pair) ==
    LET metadata == Metadata(pair.plugin)
        value == RegisterReturn(pair.plugin)
    IN  [dependencyGraph |->
             AddDependencies(this.dependencyGraph, metadata.depends, metadata.name),
         plugins |->
             ExposeAllProvided(Expose(this.plugins, Key(pair), value),
                               metadata.provides, value),
         availablePlugins |-> PushAvailable(this.availablePlugins, metadata),
         rawPlugins |-> this.rawPlugins]

RECURSIVE RegisterAllOn(_, _)
RegisterAllOn(this, batch) ==
    IF batch = <<>> THEN this
    ELSE RegisterAllOn(RegisterOn(this, Head(batch)), Tail(batch))

Init ==
    /\ dependencyGraph = EmptyObject
    /\ plugins = EmptyObject
    /\ availablePlugins = <<>>
    /\ rawPlugins = <<>>
    /\ pc = "idle"
    /\ normalizedPlugins = <<>>
    /\ i = 1
    /\ pluginData = EmptyObject
    /\ core = [p \in PluginObjects |-> NoView]
    /\ hookLog = <<>>
    /\ notified = <<>>
    /\ calls = 0
    /\ result = NoCall
    /\ registrations = <<>>
    /\ atRegister = EmptyObject
    /\ thrown = 0
    /\ instance = [c \in CoreIds |-> Constructor(c)]
    /\ heap = [cell \in Cells |-> Allocated(cell)]
    /\ outcome = [c \in CoreIds |-> [batch |-> <<>>, result |-> NoCall, ran |-> <<>>]]
    /\ metadataRead = <<>>
    /\ written = [p \in PluginObjects |-> EmptyObject]

Hook(name, p, idx) == [hook |-> name, plugin |-> p, index |-> idx]

\* registerPlugins(batch) up to the end of the dependency check: the call
\* throws and changes nothing, or goes on to name registration.
RegisterPlugins(batch) ==
    /\ pc = "idle"
    /\ calls < MaxCalls
    /\ Len(registrations) + Len(batch) <= MaxRegistered
    /\ normalizedPlugins' = batch
    /\ hookLog' = <<>>
    /\ i' = 1
    /\ \E seen \in ReadMetadata(batch) :
           /\ metadataRead' = [x \in 1..Len(batch) |-> <<seen[x]>>]
           /\ IF DependsUndefined(Seen(batch, seen))
              THEN /\ result' = ThrownTypeError
                   /\ pc' = "idle"
              ELSE LET difference == Difference(Seen(batch, seen))
                   IN  IF difference # <<>>
                       THEN /\ result' = UnmetError(difference)
                            /\ pc' = "idle"
                       ELSE /\ result' = Pending
                            /\ pc' = IF batch = <<>> THEN "pluginData" ELSE "register"
    /\ UNCHANGED <<dependencyGraph, plugins, availablePlugins, rawPlugins,
                   pluginData, core, notified, calls, registrations, atRegister,
                   thrown>>
    /\ UNCHANGED instances
    /\ UNCHANGED written

\* register and init called in one pass over the batch
Register_ThenInit ==
    /\ pc = "register"
    /\ \E read \in MetadataValues(normalizedPlugins[i].plugin) :
       LET pair == normalizedPlugins[i]
           metadata == Metadata(read)
           key == Key([plugin |-> read, options |-> pair.options])
           view == PluginsWithOverrides(pair.options)
           value == RegisterReturn(pair.plugin)
       IN  /\ metadataRead' = [metadataRead EXCEPT ![i] = Append(@, read)]
           /\ core' = [core EXCEPT ![pair.plugin] = view]
           /\ written' = [written EXCEPT ![pair.plugin] = EmptyObject]
           /\ hookLog' = hookLog \o <<Hook("register", pair.plugin, i),
                                      Hook("init", pair.plugin, i)>>
           /\ dependencyGraph' =
                  AddDependencies(dependencyGraph, DependsOf(metadata).value,
                                  metadata.name)
           /\ plugins' =
                  ExposeAllProvided(Expose(plugins, key, value), metadata.provides, value)
           /\ availablePlugins' = PushAvailable(availablePlugins, metadata)
           /\ registrations' = Append(registrations, pair)
           /\ atRegister' = TableAtRegister(pair)
    /\ IF i < Len(normalizedPlugins)
       THEN /\ i' = i + 1
            /\ pc' = pc
       ELSE /\ i' = 1
            /\ pc' = "afterInit"
    /\ UNCHANGED <<rawPlugins, normalizedPlugins, pluginData, notified, calls, result,
                   thrown>>
    /\ UNCHANGED instances

\* one iteration of the name-registration forEach
Register ==
    /\ pc = "register"
    /\ \E read \in MetadataValues(normalizedPlugins[i].plugin) :
       LET pair == normalizedPlugins[i]
           metadata == Metadata(read)
           key == Key([plugin |-> read, options |-> pair.options])
           view == PluginsWithOverrides(pair.options)
           value == RegisterReturn(pair.plugin)
       IN  /\ metadataRead' = [metadataRead EXCEPT ![i] = Append(@, read)]
           /\ core' = [core EXCEPT ![pair.plugin] = view]
           /\ written' = [written EXCEPT ![pair.plugin] = EmptyObject]
           /\ hookLog' = Append(hookLog, Hook("register", pair.plugin, i))
           /\ dependencyGraph' =
                  AddDependencies(dependencyGraph, DependsOf(metadata).value,
                                  metadata.name)
           /\ plugins' =
                  ExposeAllProvided(Expose(plugins, key, value), metadata.provides, value)
           /\ availablePlugins' = PushAvailable(availablePlugins, metadata)
           /\ registrations' = Append(registrations, pair)
           /\ atRegister' = TableAtRegister(pair)
    /\ IF i < Len(normalizedPlugins)
       THEN /\ i' = i + 1
            /\ pc' = pc
       ELSE /\ i' = 1
            /\ pc' = "init"
    /\ UNCHANGED <<rawPlugins, normalizedPlugins, pluginData, notified, calls, result,
                   thrown>>
    /\ UNCHANGED instances

\* the error of register caught inside the forEach, which goes on with the
\* next member
RegisterThrows_Caught ==
    /\ pc = "register"
    /\ MayThrow(normalizedPlugins[i].plugin, "register")
    /\ thrown < MaxThrown
    /\ hookLog' = Append(hookLog, Hook("register", normalizedPlugins[i].plugin, i))
    /\ atRegister' = TableAtRegister(normalizedPlugins[i])
    /\ thrown' = thrown + 1
    /\ IF i < Len(normalizedPlugins)
       THEN /\ i' = i + 1
            /\ pc' = pc
       ELSE /\ i' = 1
            /\ pc' = "init"
    /\ UNCHANGED <<dependencyGraph, plugins, availablePlugins, rawPlugins,
                   normalizedPlugins, pluginData, core, notified, calls,
                   registrations, result>>
    /\ UNCHANGED instances
    /\ UNCHANGED metadataRead
    /\ UNCHANGED written

\* plugin.register(pluginsWithOverrides) throws: nothing catches the error,
\* the forEach and the call end at line 197
RegisterThrows ==
    /\ pc = "register"
    /\ MayThrow(normalizedPlugins[i].plugin, "register")
    /\ thrown < MaxThrown
    /\ hookLog' = Append(hookLog, Hook("register", normalizedPlugins[i].plugin, i))
    /\ atRegister' = TableAtRegister(normalizedPlugins[i])
    /\ result' = Propagated("register")
    /\ thrown' = thrown + 1
    /\ pc' = "idle"
    /\ i' = 1
    /\ UNCHANGED <<dependencyGraph, plugins, availablePlugins, rawPlugins,
                   normalizedPlugins, pluginData, core, notified, calls,
                   registrations>>
    /\ UNCHANGED instances
    /\ UNCHANGED metadataRead
    /\ UNCHANGED written

\* normalizedPlugins.forEach(([p]) => p.init())
InitHook ==
    /\ pc = "init"
    /\ hookLog' = Append(hookLog, Hook("init", normalizedPlugins[i].plugin, i))
    /\ IF i < Len(normalizedPlugins)
       THEN /\ i' = i + 1
            /\ pc' = pc
       ELSE /\ i' = 1
            /\ pc' = "afterInit"
    /\ UNCHANGED <<dependencyGraph, plugins, availablePlugins, rawPlugins,
                   normalizedPlugins, pluginData, core, notified, calls, result,
                   registrations, atRegister, thrown>>
    /\ UNCHANGED instances
    /\ UNCHANGED metadataRead
    /\ UNCHANGED written

\* the error of init caught and the pass over the batch continued
InitThrows_Caught ==
    /\ pc = "init"
    /\ MayThrow(normalizedPlugins[i].plugin, "init")
    /\ thrown < MaxThrown
    /\ hookLog' = Append(hookLog, Hook("init", normalizedPlugins[i].plugin, i))
    /\ thrown' = thrown + 1
    /\ IF i < Len(normalizedPlugins)
       THEN /\ i' = i + 1
            /\ pc' = pc
       ELSE /\ i' = 1
            /\ pc' = "afterInit"
    /\ UNCHANGED <<dependencyGraph, plugins, availablePlugins, rawPlugins,
                   normalizedPlugins, pluginData, core, notified, calls, result,
                   registrations, atRegister>>
    /\ UNCHANGED instances
    /\ UNCHANGED metadataRead
    /\ UNCHANGED written

\* p.init() throws: nothing catches the error, the forEach and the call end
\* at line 243
InitThrows ==
    /\ pc = "init"
    /\ MayThrow(normalizedPlugins[i].plugin, "init")
    /\ thrown < MaxThrown
    /\ hookLog' = Append(hookLog, Hook("init", normalizedPlugins[i].plugin, i))
    /\ result' = Propagated("init")
    /\ thrown' = thrown + 1
    /\ pc' = "idle"
    /\ i' = 1
    /\ UNCHANGED <<dependencyGraph, plugins, availablePlugins, rawPlugins,
                   normalizedPlugins, pluginData, core, notified, calls,
                   registrations, atRegister>>
    /\ UNCHANGED instances
    /\ UNCHANGED metadataRead
    /\ UNCHANGED written

\* p.afterInit() throws: the forEach and the call end at line 252
AfterInitThrows ==
    /\ pc = "afterInit"
    /\ MayThrow(normalizedPlugins[i].plugin, "afterInit")
    /\ thrown < MaxThrown
    /\ hookLog' = Append(hookLog, Hook("afterInit", normalizedPlugins[i].plugin, i))
    /\ result' = Propagated("afterInit")
    /\ thrown' = thrown + 1
    /\ pc' = "idle"
    /\ i' = 1
    /\ UNCHANGED <<dependencyGraph, plugins, availablePlugins, rawPlugins,
                   normalizedPlugins, pluginData, core, notified, calls,
                   registrations, atRegister>>
    /\ UNCHANGED instances
    /\ UNCHANGED metadataRead
    /\ UNCHANGED written

\* the second pass calling init once more instead of afterInit
AfterInitHook_InitAgain ==
    /\ pc = "afterInit"
    /\ hookLog' = Append(hookLog, Hook("init", normalizedPlugins[i].plugin, i))
    /\ IF i < Len(normalizedPlugins)
       THEN /\ i' = i + 1
            /\ pc' = pc
       ELSE /\ i' = 1
            /\ pc' = "pluginData"
    /\ UNCHANGED <<dependencyGraph, plugins, availablePlugins, rawPlugins,
                   normalizedPlugins, pluginData, core, notified, calls, result,
                   registrations, atRegister, thrown>>
    /\ UNCHANGED instances
    /\ UNCHANGED metadataRead
    /\ UNCHANGED written

\* normalizedPlugins.forEach(([p]) => p.afterInit())
AfterInitHook ==
    /\ pc = "afterInit"
    /\ hookLog' = Append(hookLog, Hook("afterInit", normalizedPlugins[i].plugin, i))
    /\ IF i < Len(normalizedPlugins)
       THEN /\ i' = i + 1
            /\ pc' = pc
       ELSE /\ i' = 1
            /\ pc' = "pluginData"
    /\ UNCHANGED <<dependencyGraph, plugins, availablePlugins, rawPlugins,
                   normalizedPlugins, pluginData, core, notified, calls, result,
                   registrations, atRegister, thrown>>
    /\ UNCHANGED instances
    /\ UNCHANGED metadataRead
    /\ UNCHANGED written

\* the batch pushed before the notification instead of after it
NotifyTargets_WithBatch == rawPlugins \o normalizedPlugins

\* the array the notification iterates: this.rawPlugins, before the push
NotifyTargets == rawPlugins

\* the notification left out when the batch is empty
BuildPluginData_QuietWhenEmpty ==
    /\ pc = "pluginData"
    /\ \E seen \in ReadMetadata(normalizedPlugins) :
           /\ pluginData' = PluginData(Seen(normalizedPlugins, seen))
           /\ metadataRead' =
                  [x \in 1..Len(normalizedPlugins) |-> Append(metadataRead[x], seen[x])]
    /\ i' = 1
    /\ pc' = IF NotifyTargets = <<>> \/ normalizedPlugins = <<>>
             THEN "commit" ELSE "notify"
    /\ UNCHANGED <<dependencyGraph, plugins, availablePlugins, rawPlugins,
                   normalizedPlugins, core, hookLog, notified, calls, result,
                   registrations, atRegister, thrown>>
    /\ UNCHANGED instances
    /\ UNCHANGED written

\* const pluginData = normalizedPlugins.reduce(...)
BuildPluginData ==
    /\ pc = "pluginData"
    /\ \E seen \in ReadMetadata(normalizedPlugins) :
           /\ pluginData' = PluginData(Seen(normalizedPlugins, seen))
           /\ metadataRead' =
                  [x \in 1..Len(normalizedPlugins) |-> Append(metadataRead[x], seen[x])]
    /\ i' = 1
    /\ pc' = IF NotifyTargets = <<>> THEN "commit" ELSE "notify"
    /\ UNCHANGED <<dependencyGraph, plugins, availablePlugins, rawPlugins,
                   normalizedPlugins, core, hookLog, notified, calls, result,
                   registrations, atRegister, thrown>>
    /\ UNCHANGED instances
    /\ UNCHANGED written

\* this.rawPlugins.forEach(([p]) => p.onPluginRegister(pluginData))
Notify ==
    /\ pc = "notify"
    /\ hookLog' = Append(hookLog, Hook("onPluginRegister", NotifyTargets[i].plugin, i))
    /\ notified' = [j \in 1..Len(notified) |->
                       IF j = i THEN [notified[j] EXCEPT !.count = @ + 1]
                       ELSE notified[j]]
    /\ IF i < Len(NotifyTargets)
       THEN /\ i' = i + 1
            /\ pc' = pc
       ELSE /\ i' = 1
            /\ pc' = "commit"
    /\ UNCHANGED <<dependencyGraph, plugins, availablePlugins, rawPlugins,
                   normalizedPlugins, pluginData, core, calls, result,
                   registrations, atRegister, thrown>>
    /\ UNCHANGED instances
    /\ UNCHANGED metadataRead
    /\ UNCHANGED written

\* p.onPluginRegister(pluginData) throws: the forEach and the call end at
\* line 265, before the push of line 271
NotifyThrows ==
    /\ pc = "notify"
    /\ MayThrow(NotifyTargets[i].plugin, "onPluginRegister")
    /\ thrown < MaxThrown
    /\ hookLog' = Append(hookLog, Hook("onPluginRegister", NotifyTargets[i].plugin, i))
    /\ notified' = [j \in 1..Len(notified) |->
                       IF j = i THEN [notified[j] EXCEPT !.count = @ + 1]
                       ELSE notified[j]]
    /\ result' = Propagated("onPluginRegister")
    /\ thrown' = thrown + 1
    /\ pc' = "idle"
    /\ i' = 1
    /\ UNCHANGED <<dependencyGraph, plugins, availablePlugins, rawPlugins,
                   normalizedPlugins, pluginData, core, calls, registrations,
                   atRegister>>
    /\ UNCHANGED instances
    /\ UNCHANGED metadataRead
    /\ UNCHANGED written

\* push.apply given the batch as its receiver and no records to push
Pushed_Nothing(batch) == <<>>

\* push applied to the first pair only
Pushed_FirstOnly(batch) == IF batch = <<>> THEN <<>> ELSE <<Head(batch)>>

\* the records appended by this.rawPlugins.push.apply(this.rawPlugins, batch)
Pushed(batch) == batch

\* this.rawPlugins.push.apply(this.rawPlugins, normalizedPlugins); return
Commit ==
    /\ pc = "commit"
    /\ rawPlugins' = rawPlugins \o Pushed(normalizedPlugins)
    /\ notified' = notified \o [x \in 1..Len(normalizedPlugins) |->
                                      [plugin |-> normalizedPlugins[x].plugin,
                                       call |-> calls + 1, count |-> 0]]
    /\ calls' = calls + 1
    /\ result' = Returned
    /\ pc' = "idle"
    /\ i' = 1
    /\ UNCHANGED <<dependencyGraph, plugins, availablePlugins, normalizedPlugins,
                   pluginData, core, hookLog, registrations, atRegister, thrown>>
    /\ UNCHANGED instances
    /\ UNCHANGED metadataRead
    /\ UNCHANGED written

Next ==
    \/ \E batch \in SeqsUpTo(Pairs, MaxBatch) : RegisterPlugins(batch)
    \/ Register
    \/ InitHook
    \/ AfterInitHook
    \/ BuildPluginData
    \/ Notify
    \/ Commit

Spec == Init /\ [][Next]_vars

\* the calls on shared keys, with a register hook that may throw
NextOnSharedKeys ==
    \/ \E batch \in SeqsUpTo(PairsOnSharedKeys, MaxBatch) : RegisterPlugins(batch)
    \/ Register
    \/ RegisterThrows
    \/ InitHook
    \/ AfterInitHook
    \/ BuildPluginData
    \/ Notify
    \/ Commit

SpecOnSharedKeys == Init /\ [][NextOnSharedKeys]_vars

\* the plugins registered with two Core instances
PairsOfTwoCores ==
    { [plugin |-> "C", options |-> NoOptions],
      [plugin |-> "D", options |-> [name |-> NoName, overrides |-> ("svc" :> "k")]] }

\* a whole call of registerPlugins(batch) on one instance, whose hooks return
RegisterPluginsOn(c, batch) ==
    /\ Len(outcome[c].ran) + Len(batch) <= MaxRegistered
    /\ LET this == This(c)
           difference == UnmetOf(this, batch)
           registered == RegisterAllOn(this, batch)
       IN  IF difference # <<>>
           THEN /\ heap' = heap
                /\ outcome' = [outcome EXCEPT ![c] =
                       [batch |-> batch, result |-> UnmetError(difference),
                        ran |-> outcome[c].ran]]
           ELSE /\ heap' = [cell \in Cells |->
                       IF cell = instance[c].rawPlugins
                       THEN heap[cell] \o Pushed(batch)
                       ELSE IF \E f \in Fields : cell = instance[c][f]
                       THEN registered[CHOOSE f \in Fields : cell = instance[c][f]]
                       ELSE heap[cell]]
                /\ outcome' = [outcome EXCEPT ![c] =
                       [batch |-> batch, result |-> Returned,
                        ran |-> outcome[c].ran \o batch]]
    /\ UNCHANGED <<dependencyGraph, plugins, availablePlugins, rawPlugins, pc,
                   normalizedPlugins, i, pluginData, core, hookLog, notified, calls,
                   result, registrations, atRegister, thrown, instance,
                   metadataRead>>
    /\ UNCHANGED written

NextOfTwoCores ==
    \E c \in CoreIds, batch \in SeqsUpTo(PairsOfTwoCores, MaxBatch) :
        RegisterPluginsOn(c, batch)

SpecOfTwoCores == Init /\ [][NextOfTwoCores]_vars

\* the calls with a plugin whose metadata accessor answers differently from
\* one read to the next
PairsOfMetadataReads ==
    { [plugin |-> "C", options |-> NoOptions],
      [plugin |-> "F", options |-> NoOptions] }

NextOfMetadataReads ==
    \/ \E batch \in SeqsUpTo(PairsOfMetadataReads, MaxBatch) : RegisterPlugins(batch)
    \/ Register
    \/ InitHook
    \/ AfterInitHook
    \/ BuildPluginData
    \/ Notify
    \/ Commit

SpecOfMetadataReads == Init /\ [][NextOfMetadataReads]_vars

\* the calls with a plugin registered under the custom key k, a plugin that
\* depends on k and a plugin that provides k
PairsOfCustomKeys ==
    { [plugin |-> "C", options |-> [name |-> "k", overrides |-> EmptyObject]],
      [plugin |-> "G", options |-> NoOptions],
      [plugin |-> "H", options |-> NoOptions] }

NextOfCustomKeys ==
    \/ \E batch \in SeqsUpTo(PairsOfCustomKeys, MaxBatch) : RegisterPlugins(batch)
    \/ Register
    \/ InitHook
    \/ AfterInitHook
    \/ BuildPluginData
    \/ Notify
    \/ Commit

SpecOfCustomKeys == Init /\ [][NextOfCustomKeys]_vars

\* the calls with a plugin whose init, afterInit and onPluginRegister may
\* throw and a plugin that depends on it
PairsOfThrowingHooks ==
    { [plugin |-> "T", options |-> NoOptions],
      [plugin |-> "U", options |-> NoOptions] }

NextOfThrowingHooks ==
    \/ \E batch \in SeqsUpTo(PairsOfThrowingHooks, MaxBatch) : RegisterPlugins(batch)
    \/ Register
    \/ InitHook
    \/ InitThrows
    \/ AfterInitHook
    \/ AfterInitThrows
    \/ BuildPluginData
    \/ Notify
    \/ NotifyThrows
    \/ Commit

SpecOfThrowingHooks == Init /\ [][NextOfThrowingHooks]_vars

\* the calls with the plugins of the repository, whose metadata lists
\* `dependencies`, and a plugin whose metadata lists `depends`
PairsOfBundledPlugins ==
    { [plugin |-> "WindowEvents", options |-> NoOptions],
      [plugin |-> "Base", options |-> NoOptions],
      [plugin |-> "ExamplePlugin", options |-> NoOptions],
      [plugin |-> "C", options |-> NoOptions] }

NextOfBundledPlugins ==
    \/ \E batch \in SeqsUpTo(PairsOfBundledPlugins, MaxBatch) : RegisterPlugins(batch)
    \/ Register
    \/ InitHook
    \/ AfterInitHook
    \/ BuildPluginData
    \/ Notify
    \/ Commit

SpecOfBundledPlugins == Init /\ [][NextOfBundledPlugins]_vars

----------------------------------------------------------------------------
(* The earlier Core (the second class of the file, lines 299-467). Its      *)
(* registerPlugins takes plugins without options, registers their names     *)
(* before it checks the dependencies, and reads metadata.dependencies. Its  *)
(* dependencyMap is held in dependencyGraph, and a plugin of the batch is   *)
(* held as a pair with no options.                                          *)

\* the plugins given to the earlier Core: those of the repository, and V,
\* which depends on what WindowEvents provides
PairsOfEarlierCore ==
    { [plugin |-> "WindowEvents", options |-> NoOptions],
      [plugin |-> "Base", options |-> NoOptions],
      [plugin |-> "ExamplePlugin", options |-> NoOptions],
      [plugin |-> "V", options |-> NoOptions] }

\* plugin.register(this): the plugin is handed the Core itself
EarlierCoreItself ==
    [getters |-> {}, prototype |-> [object |-> "this", own |-> EmptyObject],
     built |-> TRUE]

\* Object.defineProperty(this.plugins, provided, ...) for every provided
\* name, with no test of an earlier binding
RECURSIVE EarlierExposeAllProvided(_, _, _)
EarlierExposeAllProvided(table, provides, value) ==
    IF provides = <<>> THEN table
    ELSE EarlierExposeAllProvided((Head(provides) :> value) @@ table,
                                  Tail(provides), value)

\* new Set(Object.keys(this.dependencyMap)) less new Set(this.availablePlugins)
EarlierDifference == DOMAIN dependencyGraph \ Range(availablePlugins)

\* .reduce((meta, data) => data[meta.name] = meta, {}): the accumulator is
\* the first parameter, and the callback returns it as it was
EarlierReduceCallback(meta, data) ==
    LET assigned == (Undefined :> meta) @@ data
    IN  meta

RECURSIVE EarlierReduce(_, _)
EarlierReduce(meta, batch) ==
    IF batch = <<>> THEN meta
    ELSE EarlierReduce(EarlierReduceCallback(meta, Metadata(Head(batch).plugin)),
                       Tail(batch))

\* the records appended by this.rawPlugins.push.apply(plugins): push is
\* applied to the batch itself, with no arguments
EarlierPushed(batch) == <<>>

\* registerPlugins(plugins) of the earlier Core, up to its first forEach
EarlierRegisterPlugins(batch) ==
    /\ pc = "idle"
    /\ calls < MaxCalls
    /\ Len(registrations) + Len(batch) <= MaxRegistered
    /\ normalizedPlugins' = batch
    /\ hookLog' = <<>>
    /\ i' = 1
    /\ metadataRead' = [x \in 1..Len(batch) |-> <<>>]
    /\ result' = Pending
    /\ pc' = IF batch = <<>> THEN "earlierCheck" ELSE "earlierRegister"
    /\ UNCHANGED <<dependencyGraph, plugins, availablePlugins, rawPlugins,
                   pluginData, core, notified, calls, registrations, atRegister,
                   thrown>>
    /\ UNCHANGED instances
    /\ UNCHANGED written

\* one pass of plugins.forEach((plugin) => { ... }): register, dependencyMap,
\* the name and the provided names exposed and pushed
EarlierRegister ==
    /\ pc = "earlierRegister"
    /\ LET pair == normalizedPlugins[i]
           metadata == Metadata(pair.plugin)
           name == metadata.name
           value == RegisterReturn(pair.plugin)
       IN  /\ metadataRead' = [metadataRead EXCEPT ![i] = Append(@, pair.plugin)]
           /\ core' = [core EXCEPT ![pair.plugin] = EarlierCoreItself]
           /\ written' = [written EXCEPT ![pair.plugin] = EmptyObject]
           /\ hookLog' = Append(hookLog, Hook("register", pair.plugin, i))
           /\ dependencyGraph' =
                  AddDependencies(dependencyGraph, metadata.dependencies, name)
           /\ plugins' =
                  EarlierExposeAllProvided(Expose(plugins, name, value),
                                           metadata.provides, value)
           /\ availablePlugins' = availablePlugins \o <<name>> \o metadata.provides
           /\ registrations' = Append(registrations, pair)
           /\ atRegister' = plugins
    /\ IF i < Len(normalizedPlugins)
       THEN /\ i' = i + 1
            /\ pc' = pc
       ELSE /\ i' = 1
            /\ pc' = "earlierCheck"
    /\ UNCHANGED <<rawPlugins, normalizedPlugins, pluginData, notified, calls,
                   result, thrown>>
    /\ UNCHANGED instances

\* the dependency check after the names were registered; with a dependency
\* unmet, difference.values().sort is not a function and the TypeError ends
\* the call
EarlierCheck ==
    /\ pc = "earlierCheck"
    /\ i' = 1
    /\ IF EarlierDifference # {}
       THEN /\ result' = ThrownTypeError
            /\ pc' = "idle"
       ELSE /\ result' = result
            /\ pc' = IF normalizedPlugins = <<>> THEN "earlierNotify" ELSE "earlierInit"
    /\ UNCHANGED <<dependencyGraph, plugins, availablePlugins, rawPlugins,
                   normalizedPlugins, pluginData, core, hookLog, notified, calls,
                   registrations, atRegister, thrown>>
    /\ UNCHANGED instances
    /\ UNCHANGED metadataRead
    /\ UNCHANGED written

\* plugins.forEach((p) => p.init())
EarlierInit ==
    /\ pc = "earlierInit"
    /\ hookLog' = Append(hookLog, Hook("init", normalizedPlugins[i].plugin, i))
    /\ IF i < Len(normalizedPlugins)
       THEN /\ i' = i + 1
            /\ pc' = pc
       ELSE /\ i' = 1
            /\ pc' = "earlierAfterInit"
    /\ UNCHANGED <<dependencyGraph, plugins, availablePlugins, rawPlugins,
                   normalizedPlugins, pluginData, core, notified, calls, result,
                   registrations, atRegister, thrown>>
    /\ UNCHANGED instances
    /\ UNCHANGED metadataRead
    /\ UNCHANGED written

\* plugins.forEach((p) => p.afterInit())
EarlierAfterInit ==
    /\ pc = "earlierAfterInit"
    /\ hookLog' = Append(hookLog, Hook("afterInit", normalizedPlugins[i].plugin, i))
    /\ IF i < Len(normalizedPlugins)
       THEN /\ i' = i + 1
            /\ pc' = pc
       ELSE /\ i' = 1
            /\ pc' = "earlierNotify"
    /\ UNCHANGED <<dependencyGraph, plugins, availablePlugins, rawPlugins,
                   normalizedPlugins, pluginData, core, notified, calls, result,
                   registrations, atRegister, thrown>>
    /\ UNCHANGED instances
    /\ UNCHANGED metadataRead
    /\ UNCHANGED written

\* pluginData, this.rawPlugins.forEach((p) => p.onPluginRegister(pluginData))
\* and this.rawPlugins.push.apply(plugins), then the return
EarlierNotify ==
    /\ pc = "earlierNotify"
    /\ pluginData' = EarlierReduce(EmptyObject, normalizedPlugins)
    /\ metadataRead' = [x \in 1..Len(normalizedPlugins) |->
                            Append(metadataRead[x], normalizedPlugins[x].plugin)]
    /\ hookLog' = hookLog \o [x \in 1..Len(rawPlugins) |->
                                 Hook("onPluginRegister", rawPlugins[x].plugin, x)]
    /\ rawPlugins' = rawPlugins \o EarlierPushed(normalizedPlugins)
    /\ notified' = notified
    /\ calls' = calls + 1
    /\ result' = Returned
    /\ pc' = "idle"
    /\ i' = 1
    /\ UNCHANGED <<dependencyGraph, plugins, availablePlugins, normalizedPlugins,
                   core, registrations, atRegister, thrown>>
    /\ UNCHANGED instances
    /\ UNCHANGED written

NextOfEarlierCore ==
    \/ \E batch \in SeqsUpTo(PairsOfEarlierCore, MaxBatch) : EarlierRegisterPlugins(batch)
    \/ EarlierRegister
    \/ EarlierCheck
    \/ EarlierInit
    \/ EarlierAfterInit
    \/ EarlierNotify

SpecOfEarlierCore == Init /\ [][NextOfEarlierCore]_vars

\* the calls after which plugins assign properties on the view they stored
PairsOfViewWrites ==
    { [plugin |-> "C", options |-> NoOptions],
      [plugin |-> "D", options |-> [name |-> NoName, overrides |-> ("svc" :> "k")]] }

\* the keys a plugin assigns: svc is bound once C is registered and is an
\* override key of D's view; k and plugins are never bound
AssignedKeys == {"svc", "k", "plugins"}

\* this.core[key] = "w" in a method of a plugin that stored its view
AssignThroughView(p, key) ==
    /\ core[p].built
    /\ plugins' = Assigned(p, key, "w").table
    /\ written' = [written EXCEPT ![p] = Assigned(p, key, "w").own]
    /\ UNCHANGED <<dependencyGraph, availablePlugins, rawPlugins, pc,
                   normalizedPlugins, i, pluginData, core, hookLog, notified, calls,
                   result, registrations, atRegister, thrown, metadataRead>>
    /\ UNCHANGED instances

NextOfViewWrites ==
    \/ \E batch \in SeqsUpTo(PairsOfViewWrites, MaxBatch) : RegisterPlugins(batch)
    \/ Register
    \/ InitHook
    \/ AfterInitHook
    \/ BuildPluginData
    \/ Notify
    \/ Commit
    \/ \E p \in PluginObjects, key \in AssignedKeys : AssignThroughView(p, key)

SpecOfViewWrites == Init /\ [][NextOfViewWrites]_vars

----------------------------------------------------------------------------
(* Vocabulary of the properties.                                           *)

Names == {"a", "b", "c", "d", "e", "f", "g", "h", "k", "plugins", "svc", "t", "u"}

Members(batch) == {batch[x].plugin : x \in 1..Len(batch)}

\* the names a batch declares: every member's metadata name and provides
DeclaredBy(batch) ==
    UNION {{Metadata(p).name} \cup Range(Metadata(p).provides) : p \in Members(batch)}

\* the names a batch depends on
DependedOnBy(batch) == UNION {Range(Metadata(p).depends) : p \in Members(batch)}

\* the dependencies of a batch that nothing satisfies, given the available names
Missing(batch, available) == DependedOnBy(batch) \ (Range(available) \cup DeclaredBy(batch))

\* the least name of a non-empty set
Least(S) == CHOOSE x \in S : \A y \in S \ {x} : StringLess(x, y)

\* the names of a set in ascending order, each once
RECURSIVE Ascending(_)
Ascending(S) ==
    IF S = {} THEN <<>> ELSE <<Least(S)>> \o Ascending(S \ {Least(S)})

\* the hooks of one kind in a log
RECURSIVE HooksOf(_, _)
HooksOf(log, kind) ==
    IF log = <<>> THEN <<>>
    ELSE IF Head(log).hook = kind THEN <<Head(log)>> \o HooksOf(Tail(log), kind)
    ELSE HooksOf(Tail(log), kind)

\* the number of the call in progress, or of the last call that ran to its end
CurrentCall == IF pc = "idle" THEN calls ELSE calls + 1

\* the records of the calls that ran to their end before the current one
RECURSIVE Before(_, _)
Before(records, call) ==
    IF records = <<>> THEN <<>>
    ELSE IF Head(records).call < call
         THEN <<Head(records)>> \o Before(Tail(records), call)
         ELSE Before(Tail(records), call)

PriorRecords == Before(notified, CurrentCall)

----------------------------------------------------------------------------
(* C1: a call whose batch has a dependency that is neither available nor   *)
(* declared by a member of the batch throws before any hook of any plugin  *)
(* is invoked, and leaves plugins, availablePlugins, dependencyGraph and   *)
(* rawPlugins exactly as they were.                                        *)

C1_UnmetCallStep ==
    (pc = "idle" /\ vars' # vars /\ Missing(normalizedPlugins', availablePlugins) # {})
        => /\ pc' = "idle"
           /\ result'.status = "thrown"
           /\ hookLog' = <<>>
           /\ UNCHANGED <<plugins, availablePlugins, dependencyGraph, rawPlugins,
                          core, notified>>

C1_UnmetLeavesStateUntouched == [][C1_UnmetCallStep]_vars

\* a rejected call on a Core that already holds plugins
C1_Witness ==
    /\ pc = "idle"
    /\ result.status = "thrown"
    /\ rawPlugins # <<>>
    /\ Len(normalizedPlugins) >= 2
    /\ Missing(normalizedPlugins, availablePlugins) # {}

(* C2: the error of a rejected call names exactly the dependencies of the  *)
(* batch that are neither available nor declared by the batch, each once,  *)
(* in ascending order of code units.                                       *)

C2_ErrorListsMissingSorted ==
    result.status = "thrown"
        => result.message =
               "Unmet dependencies: "
                   \o Join(Ascending(Missing(normalizedPlugins, availablePlugins)), ", ")

\* two missing names met in descending order, one of them required twice
C2_Witness ==
    /\ result.status = "thrown"
    /\ Len(normalizedPlugins) >= 2
    /\ normalizedPlugins[1].plugin = "D"
    /\ normalizedPlugins[2].plugin = "D"
    /\ Difference(normalizedPlugins) = <<"svc", "c">>
    /\ result.message = "Unmet dependencies: c, svc"

(* C3: after a call that returns, every name its members declare, the      *)
(* metadata name and each provides name, is bound in plugins, whatever the *)
(* registration options.                                                   *)

C3_DeclaredNamesBound ==
    (pc = "idle" /\ result.status = "returned")
        => DeclaredBy(normalizedPlugins) \subseteq DOMAIN plugins

(* C4: the hooks of one call are invoked phase by phase, each phase over   *)
(* the whole batch in batch order before the next starts: register, init,  *)
(* afterInit, then onPluginRegister on the earlier records; the batch is   *)
(* pushed to rawPlugins only after all of them.                            *)

IsPrefix(q, r) == Len(q) <= Len(r) /\ q = SubSeq(r, 1, Len(q))

PhaseLog(kind, records) ==
    [x \in 1..Len(records) |-> Hook(kind, records[x].plugin, x)]

ExpectedLog(batch, prior) ==
    PhaseLog("register", batch) \o PhaseLog("init", batch)
        \o PhaseLog("afterInit", batch) \o PhaseLog("onPluginRegister", prior)

C4_LogInPhaseOrder ==
    /\ result.status \in {"pending", "returned"}
           => IsPrefix(hookLog, ExpectedLog(normalizedPlugins, PriorRecords))
    /\ (pc = "idle" /\ result.status = "returned")
           => hookLog = ExpectedLog(normalizedPlugins, PriorRecords)

C4_PushStep ==
    rawPlugins' # rawPlugins
        => /\ hookLog = ExpectedLog(normalizedPlugins, PriorRecords)
           /\ hookLog' = hookLog
           /\ pc' = "idle"

C4_PhasesStrictlyOrdered == []C4_LogInPhaseOrder /\ [][C4_PushStep]_vars

\* all four phases have run, over a batch of two and an earlier record
C4_Witness ==
    /\ pc = "commit"
    /\ Len(normalizedPlugins) >= 2
    /\ rawPlugins # <<>>
    /\ Len(hookLog) = 3 * Len(normalizedPlugins) + Len(rawPlugins)

(* C5: A and B that depend on each other, registered together in either    *)
(* order, pass the dependency check; from the afterInit phase on, b read   *)
(* through the view A stored is B's value and a read through the view B    *)
(* stored is A's value.  A alone, with b not available, is rejected with   *)
(* the unmet dependency b.                                                 *)

PairA == [plugin |-> "A", options |-> NoOptions]
PairB == [plugin |-> "B", options |-> NoOptions]

C5_CircularBatch ==
    /\ normalizedPlugins \in {<<PairA, PairB>>, <<PairB, PairA>>}
           => result.status \in {"pending", "returned"}
    /\ ( /\ {PairA, PairB} \subseteq Range(normalizedPlugins)
         /\ \/ pc \in {"afterInit", "pluginData", "notify", "commit"}
            \/ pc = "idle" /\ result.status = "returned" )
           => /\ ViewGet(core["A"], "b") = RegisterReturn("B")
              /\ ViewGet(core["B"], "a") = RegisterReturn("A")
    /\ (normalizedPlugins = <<PairA>> /\ "b" \notin Range(availablePlugins))
           => /\ result.status = "thrown"
              /\ result.message = "Unmet dependencies: b"

\* the afterInit phase of the batch [B, A]
C5_Witness ==
    /\ pc = "afterInit"
    /\ normalizedPlugins = <<PairB, PairA>>
    /\ ViewGet(core["A"], "b") = "B"

(* C6: when a member is registered with options.overrides mapping d to a   *)
(* key k that is bound, reading d through the view passed to its register  *)
(* gives the value bound under k; reading a name that is no override key   *)
(* gives the binding of plugins for that name.                             *)

C6_OverrideReadsMappedKey ==
    pc = "register"
        => LET pair == normalizedPlugins[i]
               overrides == pair.options.overrides
               view == PluginsWithOverrides(pair.options)
           IN  /\ \A d \in DOMAIN overrides :
                      overrides[d] \in DOMAIN plugins
                          => ViewGet(view, d) = plugins[overrides[d]]
               /\ \A n \in Names \ DOMAIN overrides :
                      ViewGet(view, n) = TableGet(plugins, n)

(* C7, as claimed: whenever a key is bound or rebound in plugins, reading  *)
(* that key through any view built earlier gives the new binding.          *)

C7_RebindStep ==
    \A p \in PluginObjects, key \in Names :
        ( /\ core'[p].built
          /\ key \in DOMAIN plugins'
          /\ (key \notin DOMAIN plugins \/ plugins'[key] # plugins[key]) )
            => ViewGet(core[p], key)' = plugins'[key]

C7_ViewLiveForEveryKey == [][C7_RebindStep]_vars

(* C7, amended: at any time, reading through a stored view a key that is   *)
(* not one of that view's own override keys gives the current binding of   *)
(* plugins for that key, whenever the key was bound.                       *)

C7_ViewLiveOutsideOverrides ==
    \A p \in PluginObjects :
        core[p].built
            => \A key \in Names \ core[p].getters :
                   ViewGet(core[p], key) = TableGet(plugins, key)

\* c is bound by a later member of the batch and read through D's older view
C7_Witness ==
    /\ pc = "init"
    /\ rawPlugins = <<>>
    /\ Len(normalizedPlugins) = 2
    /\ normalizedPlugins[1].plugin = "D"
    /\ normalizedPlugins[2].plugin = "C"
    /\ ViewGet(core["D"], "c") = "C"

(* C8: a call that runs to its end invokes onPluginRegister once on each   *)
(* record of the earlier calls that ran to their end, in registration      *)
(* order, and on nothing else; between calls a record followed by n such   *)
(* calls has been notified n times; what is passed is built from the       *)
(* metadata of the current batch only.                                     *)

C8_NotifiedOncePerLaterCall ==
    /\ result.status \in {"pending", "returned"}
           => IsPrefix(HooksOf(hookLog, "onPluginRegister"),
                       PhaseLog("onPluginRegister", PriorRecords))
    /\ (pc = "commit" \/ (pc = "idle" /\ result.status = "returned"))
           => HooksOf(hookLog, "onPluginRegister")
                  = PhaseLog("onPluginRegister", PriorRecords)
    /\ pc = "idle"
           => \A j \in 1..Len(notified) : notified[j].count = calls - notified[j].call
    /\ pc \in {"notify", "commit"}
           => \/ pluginData = EmptyObject /\ normalizedPlugins = <<>>
              \/ pluginData \in {Metadata(p) : p \in Members(normalizedPlugins)}

\* a record of the first call after two later calls
C8_Witness ==
    /\ pc = "idle"
    /\ calls = 3
    /\ Len(notified) >= 2
    /\ notified[1].call = 1
    /\ notified[1].count = 2
    /\ notified[Len(notified)].call = 3

(* C9, as claimed: onPluginRegister is never invoked on a plugin that is a *)
(* member of the batch being registered.                                   *)

C9_NoMemberNotified ==
    \A x \in 1..Len(hookLog) :
        hookLog[x].hook = "onPluginRegister"
            => hookLog[x].plugin \notin Members(normalizedPlugins)

(* C9, amended: onPluginRegister is invoked only through the records of    *)
(* earlier calls, so a member of the batch is notified during its own call *)
(* only if the same plugin object was registered by an earlier call.       *)

C9_OnlyEarlierRecordsNotified ==
    \A x \in 1..Len(hookLog) :
        hookLog[x].hook = "onPluginRegister"
            => /\ hookLog[x].index \in 1..Len(PriorRecords)
               /\ hookLog[x].plugin = PriorRecords[hookLog[x].index].plugin

\* notifications are over and a member new to Core was not notified
C9_Witness ==
    /\ pc = "commit"
    /\ HooksOf(hookLog, "onPluginRegister") # <<>>
    /\ \E p \in Members(normalizedPlugins) : p \notin Members(PriorRecords)

(* C10: the argument of onPluginRegister maps each exposure key of the     *)
(* batch to the metadata of a member exposed under that key, and has no    *)
(* other entry.                                                            *)

C10_SnapshotKeyedByExposureKey ==
    pc = "notify"
        => /\ DOMAIN pluginData = {Key(normalizedPlugins[x]) : x \in 1..Len(normalizedPlugins)}
           /\ \A x \in 1..Len(normalizedPlugins) :
                  pluginData[Key(normalizedPlugins[x])]
                      \in {Metadata(normalizedPlugins[y].plugin) :
                              y \in {z \in 1..Len(normalizedPlugins) :
                                        Key(normalizedPlugins[z]) = Key(normalizedPlugins[x])}}

\* a step of the name-registration forEach in which register returned
RegisterReturned == pc = "register" /\ Len(registrations') = Len(registrations) + 1

\* the positions of the registrations that provide a name, or take it as key
ProvidersOf(s) ==
    {x \in 1..Len(registrations) : s \in Range(Metadata(registrations[x].plugin).provides)}

RegisteredAs(s) == {x \in 1..Len(registrations) : Key(registrations[x]) = s}

Min(S) == CHOOSE x \in S : \A y \in S : x <= y

Max(S) == CHOOSE x \in S : \A y \in S : y <= x

(* C11, as claimed: when a plugin is registered, every name of its provides *)
(* that is already bound in plugins keeps its binding.                      *)

C11_ProvidedStep ==
    RegisterReturned
        => \A s \in Range(Metadata(normalizedPlugins[i].plugin).provides) :
               s \in DOMAIN plugins => plugins'[s] = plugins[s]

C11_BoundProvidedKeyUnchanged == [][C11_ProvidedStep]_vars

(* C11, amended: when a plugin is registered, every name of its provides    *)
(* that is already bound in plugins and is not the key the plugin itself is *)
(* exposed under keeps its binding; a name that plugins provide and that no *)
(* plugin was exposed under resolves to the value of its first provider.    *)

C11_AliasStep ==
    RegisterReturned
        => \A s \in Range(Metadata(normalizedPlugins[i].plugin).provides) :
               (s \in DOMAIN plugins /\ s # Key(normalizedPlugins[i]))
                   => plugins'[s] = plugins[s]

C11_FirstProviderBound ==
    \A s \in Names :
        (ProvidersOf(s) # {} /\ RegisteredAs(s) = {})
            => /\ s \in DOMAIN plugins
               /\ plugins[s] = RegisterReturn(registrations[Min(ProvidersOf(s))].plugin)

C11_AliasFirstWins == [][C11_AliasStep]_vars /\ []C11_FirstProviderBound

\* C provided svc first, E provided it later under the key k: svc is C's
C11_Witness ==
    /\ pc = "idle"
    /\ result = Returned
    /\ Len(registrations) >= 2
    /\ registrations[1].plugin = "C"
    /\ \E x \in ProvidersOf("svc") : registrations[x].plugin = "E"
    /\ RegisteredAs("svc") = {}
    /\ plugins["svc"] = "C"

(* C12: registering a plugin binds the key it is exposed under to the value *)
(* its register returned, whether or not the key was bound before; a key    *)
(* that plugins were exposed under resolves to the value of the last of     *)
(* them, registered in one batch or in successive batches.                  *)

C12_KeyStep ==
    RegisterReturned
        => /\ Key(normalizedPlugins[i]) \in DOMAIN plugins'
           /\ plugins'[Key(normalizedPlugins[i])] =
                  RegisterReturn(normalizedPlugins[i].plugin)

C12_LastRegisteredBound ==
    \A s \in Names :
        RegisteredAs(s) # {}
            => /\ s \in DOMAIN plugins
               /\ plugins[s] = RegisterReturn(registrations[Max(RegisteredAs(s))].plugin)

C12_PrimaryKeyLastWins == [][C12_KeyStep]_vars /\ []C12_LastRegisteredBound

\* C was exposed under k, then E under k: k is E's
C12_Witness ==
    /\ pc = "idle"
    /\ result = Returned
    /\ \E x, y \in RegisteredAs("k") :
           /\ x < y
           /\ registrations[x].plugin = "C"
           /\ registrations[y].plugin = "E"
           /\ y = Max(RegisteredAs("k"))
    /\ plugins["k"] = "E"

(* C13: when a call has run to its end, the register, init and afterInit    *)
(* hooks of each member of its batch were each invoked exactly once during  *)
(* the call, register before init before afterInit, and the key each member *)
(* is exposed under resolves to the value its register returned, unless a   *)
(* later member was exposed under the same key.                             *)

\* the positions in the log of the call at which a hook of a member was invoked
Invocations(kind, x) ==
    {j \in 1..Len(hookLog) : hookLog[j] = Hook(kind, normalizedPlugins[x].plugin, x)}

C13_EachHookOnceInOrder ==
    (pc = "idle" /\ result = Returned)
        => \A x \in 1..Len(normalizedPlugins) :
               /\ \A kind \in {"register", "init", "afterInit"} :
                      Cardinality(Invocations(kind, x)) = 1
               /\ \A r \in Invocations("register", x), n \in Invocations("init", x),
                     a \in Invocations("afterInit", x) : r < n /\ n < a
               /\ (\A y \in (x + 1)..Len(normalizedPlugins) :
                       Key(normalizedPlugins[y]) # Key(normalizedPlugins[x]))
                      => /\ Key(normalizedPlugins[x]) \in DOMAIN plugins
                         /\ plugins[Key(normalizedPlugins[x])] =
                                RegisterReturn(normalizedPlugins[x].plugin)

\* a batch of two that ran to its end, the second member rebinding the key
\* of the first
C13_Witness ==
    /\ pc = "idle"
    /\ result = Returned
    /\ Len(normalizedPlugins) = 2
    /\ normalizedPlugins[1].plugin = "C"
    /\ normalizedPlugins[2].plugin = "E"
    /\ Key(normalizedPlugins[1]) = Key(normalizedPlugins[2])
    /\ Len(hookLog) = 6
    /\ plugins["k"] = "E"

(* C14: the step that ends a call appends the records of its batch, in the  *)
(* order of the batch, to rawPlugins, and no other step changes rawPlugins; *)
(* so rawPlugins holds the batches of the calls that ran to their end, in   *)
(* call order, duplicates kept.                                             *)

C14_PushStep ==
    rawPlugins' = IF pc = "commit" THEN rawPlugins \o normalizedPlugins ELSE rawPlugins

C14_AllBatchesInCallOrder ==
    /\ Len(rawPlugins) = Len(notified)
    /\ \A x \in 1..Len(rawPlugins) :
           /\ rawPlugins[x].plugin = notified[x].plugin
           /\ \A y \in 1..x : notified[y].call <= notified[x].call

C14_RawRegistryConcatenates == [][C14_PushStep]_vars /\ []C14_AllBatchesInCallOrder

\* two calls ran to their end, the second with a record the first had too
C14_Witness ==
    /\ pc = "idle"
    /\ result = Returned
    /\ calls = 2
    /\ Len(rawPlugins) = 3
    /\ Len(normalizedPlugins) = 2
    /\ rawPlugins[1] = rawPlugins[3]
    /\ rawPlugins[2] # rawPlugins[3]
    /\ SubSeq(rawPlugins, 2, 3) = normalizedPlugins

(* C15: when the register hook of a member of a validated batch throws, the *)
(* call ends there with that error: the log of the call holds the register  *)
(* hooks of the members up to the one that threw and no other hook, the     *)
(* step undoes nothing, and every member before the one that threw is still *)
(* bound under its key and its provides and recorded in availablePlugins    *)
(* and, for each of its dependencies, in dependencyGraph; the batch is not  *)
(* pushed to rawPlugins.                                                    *)

C15_ThrowStep ==
    thrown' # thrown
        => /\ pc = "register" /\ pc' = "idle"
           /\ result' = Propagated("register")
           /\ hookLog' = Append(hookLog, Hook("register", normalizedPlugins[i].plugin, i))
           /\ UNCHANGED <<plugins, availablePlugins, dependencyGraph, rawPlugins, core,
                          registrations, normalizedPlugins>>

C15_EarlierMembersKept ==
    (pc = "idle" /\ result = Propagated("register"))
        => LET n == Len(hookLog)
           IN  /\ n \in 1..Len(normalizedPlugins)
               /\ hookLog = PhaseLog("register", SubSeq(normalizedPlugins, 1, n))
               /\ Len(registrations) >= n - 1
               /\ SubSeq(registrations, Len(registrations) - n + 2, Len(registrations))
                      = SubSeq(normalizedPlugins, 1, n - 1)
               /\ \A x \in 1..(n - 1) :
                      LET pair == normalizedPlugins[x]
                          metadata == Metadata(pair.plugin)
                      IN  /\ Key(pair) \in DOMAIN plugins
                          /\ Range(metadata.provides) \subseteq DOMAIN plugins
                          /\ {metadata.name} \cup Range(metadata.provides)
                                 \subseteq Range(availablePlugins)
                          /\ \A d \in Range(metadata.depends) :
                                 /\ d \in DOMAIN dependencyGraph
                                 /\ metadata.name \in Range(dependencyGraph[d])
               /\ Len(rawPlugins) = Len(notified)

C15_RegisterThrowEndsCall == [][C15_ThrowStep]_vars /\ []C15_EarlierMembersKept

\* the register of the second member threw: the first member, which has
\* dependencies, stays registered and the second is not bound
C15_Witness ==
    /\ pc = "idle"
    /\ result = Propagated("register")
    /\ Len(normalizedPlugins) = 2
    /\ Len(hookLog) = 2
    /\ normalizedPlugins[1].plugin = "D"
    /\ normalizedPlugins[2].plugin = "E"
    /\ "d" \in DOMAIN plugins
    /\ "d" \in Range(dependencyGraph["c"])
    /\ Key(normalizedPlugins[2]) \notin DOMAIN plugins
    /\ "e" \notin Range(availablePlugins)

(* C16: when every registration of a plugin A so far gave it a custom name  *)
(* other than its metadata name, a batch that depends on A's metadata name  *)
(* and whose other dependencies are met is not rejected, and a plugin B     *)
(* that depends on A's metadata name and has no override for it reads       *)
(* nothing under that name through its view: the name is available but not  *)
(* bound (no other plugin being exposed under it or providing it).          *)

RegistrationsOf(p) == {x \in 1..Len(registrations) : registrations[x].plugin = p}

CustomOnly(p) ==
    /\ RegistrationsOf(p) # {}
    /\ \A x \in RegistrationsOf(p) :
           registrations[x].options.name \notin {NoName, Metadata(p).name}

C16_ValidationStep ==
    ( /\ pc = "idle"
      /\ vars' # vars
      /\ \E a \in Members(registrations) :
             /\ CustomOnly(a)
             /\ Metadata(a).name \in DependedOnBy(normalizedPlugins')
      /\ Missing(normalizedPlugins', availablePlugins) = {} )
        => result' = Pending /\ pc' = "register"

C16_NameAvailableNotBound ==
    \A a, b \in Members(registrations) :
        LET name == Metadata(a).name
        IN  ( /\ CustomOnly(a)
              /\ ProvidersOf(name) = {}
              /\ \A x \in RegisteredAs(name) : registrations[x].plugin = a
              /\ core[b].built
              /\ name \in Range(Metadata(b).depends)
              /\ name \notin core[b].getters )
                => /\ name \in Range(availablePlugins)
                   /\ name \notin DOMAIN plugins
                   /\ ViewGet(core[b], name) = Undefined
                   /\ ViewGet(core[b], name) # RegisterReturn(a)

C16_DependentOfRenamedPlugin ==
    [][C16_ValidationStep]_vars /\ []C16_NameAvailableNotBound

\* C was registered as k only; D, which depends on c, came in a later batch
\* that ran to its end, and D reads nothing under c
C16_Witness ==
    /\ pc = "idle"
    /\ result = Returned
    /\ calls = 2
    /\ CustomOnly("C")
    /\ normalizedPlugins = <<[plugin |-> "D",
                              options |-> [name |-> NoName, overrides |-> ("svc" :> "k")]]>>
    /\ "d" \in DOMAIN plugins
    /\ ViewGet(core["D"], "c") = Undefined

(* C17: a call on one Core instance leaves dependencyGraph, plugins,        *)
(* availablePlugins and rawPlugins of the other instance unchanged; what an *)
(* instance holds comes from the batches it ran itself, and a call returns  *)
(* only if the dependencies of its batch are declared by plugins registered *)
(* with that same instance.                                                 *)

C17_CallStep ==
    \A c \in CoreIds :
        outcome'[c] # outcome[c]
            => \A o \in CoreIds \ {c} : This(o)' = This(o) /\ outcome'[o] = outcome[o]

C17_OwnRegistrationsOnly ==
    \A c \in CoreIds :
        LET this == This(c)
            ran == outcome[c].ran
        IN  /\ Range(this.availablePlugins) = DeclaredBy(ran)
            /\ DOMAIN this.plugins = DeclaredBy(ran)
            /\ DOMAIN this.dependencyGraph = DependedOnBy(ran)
            /\ this.rawPlugins = ran
            /\ outcome[c].result.status = "returned"
                   => DependedOnBy(outcome[c].batch) \subseteq DeclaredBy(ran)
            /\ outcome[c].result.status = "thrown"
                   => Missing(outcome[c].batch, this.availablePlugins) # {}

C17_InstancesIndependent == [][C17_CallStep]_vars /\ []C17_OwnRegistrationsOnly

\* C is registered with the first instance; the second rejects D, which
\* depends on what C declares, and holds nothing
C17_Witness ==
    /\ "c" \in Range(This(1).availablePlugins)
    /\ "svc" \in DOMAIN This(1).plugins
    /\ outcome[2].batch # <<>>
    /\ Members(outcome[2].batch) = {"D"}
    /\ outcome[2].result.status = "thrown"
    /\ This(2) = [f \in Fields |-> Allocated(<<2, f>>)]

\* the dependents recorded for a name, none when the name has no entry
Dependents(graph, d) == IF d \in DOMAIN graph THEN graph[d] ELSE <<>>

\* what the registrations that depend on a name contribute, in their order,
\* each registration once for each time its depends lists the name
RECURSIVE EntriesFor(_, _, _)
EntriesFor(records, d, entries) ==
    IF records = <<>> THEN <<>>
    ELSE LET depends == Metadata(Head(records).plugin).depends
             times == Cardinality({x \in 1..Len(depends) : depends[x] = d})
         IN  [x \in 1..times |-> entries[Head(records)]]
                 \o EntriesFor(Tail(records), d, entries)

AllPairs == Pairs \cup PairsOnSharedKeys \cup PairsOfTwoCores

ExposureKeys == [pair \in AllPairs |-> Key(pair)]

MetadataNames == [pair \in AllPairs |-> Metadata(pair.plugin).name]

(* C18, as claimed: for every name, dependencyGraph lists in registration   *)
(* order one entry for each registered plugin that depends on the name, and *)
(* the entry is the key the plugin is exposed under.                        *)

C18_EntriesAreExposureKeys ==
    \A d \in Names :
        Dependents(dependencyGraph, d) = EntriesFor(registrations, d, ExposureKeys)

(* C18, amended: for every name, dependencyGraph lists in registration      *)
(* order one entry for each registered plugin that depends on the name, and *)
(* the entry is the metadata name of the plugin, whatever name its options  *)
(* give it.                                                                 *)

C18_EntriesAreMetadataNames ==
    \A d \in Names :
        Dependents(dependencyGraph, d) = EntriesFor(registrations, d, MetadataNames)

\* E, which depends on c, is registered as k: the entry under c is e, not k
C18_Witness ==
    /\ pc = "idle"
    /\ result = Returned
    /\ \E x \in RegistrationsOf("E") : Key(registrations[x]) = "k"
    /\ "c" \in DOMAIN dependencyGraph
    /\ "e" \in Range(dependencyGraph["c"])
    /\ "k" \notin Range(dependencyGraph["c"])

(* C19: when the register hook of a member of the batch is invoked, plugins *)
(* holds exactly the bindings that the registrations before it made, those  *)
(* of earlier calls and of the members before it in the batch: the member's *)
(* own names, and names that only later members bind, are not bound yet.    *)

\* the names a sequence of registrations binds
BoundBy(records) ==
    UNION {{Key(records[x])} \cup Range(Metadata(records[x].plugin).provides) :
               x \in 1..Len(records)}

\* the value a name has after a sequence of registrations: that of the last
\* plugin exposed under it, or else that of the first plugin providing it
ValueAfter(records, s) ==
    LET exposed == {x \in 1..Len(records) : Key(records[x]) = s}
        providers == {x \in 1..Len(records) :
                          s \in Range(Metadata(records[x].plugin).provides)}
    IN  IF exposed # {} THEN RegisterReturn(records[Max(exposed)].plugin)
        ELSE RegisterReturn(records[Min(providers)].plugin)

TableAfter(records) == [s \in BoundBy(records) |-> ValueAfter(records, s)]

\* the last hook invoked is the register of a member; the registrations
\* before that member, which is itself registered unless its register threw
LastHookIsRegister == hookLog # <<>> /\ hookLog[Len(hookLog)].hook = "register"

RegisteredBeforeLast ==
    IF pc = "idle" THEN registrations
    ELSE SubSeq(registrations, 1, Len(registrations) - 1)

C19_RegisterSeesEarlierOnly ==
    LastHookIsRegister
        => LET x == hookLog[Len(hookLog)].index
               earlier == RegisteredBeforeLast
           IN  /\ Len(earlier) >= x - 1
               /\ SubSeq(earlier, Len(earlier) - x + 2, Len(earlier))
                      = SubSeq(normalizedPlugins, 1, x - 1)
               /\ atRegister = TableAfter(earlier)
               /\ \A y \in x..Len(normalizedPlugins) :
                      Key(normalizedPlugins[y]) \notin BoundBy(earlier)
                          => Key(normalizedPlugins[y]) \notin DOMAIN atRegister

\* after a call that registered C, the batch [A, B]: when B's register is
\* invoked a is bound, and b, which A depends on, is not
C19_Witness ==
    /\ pc = "init"
    /\ i = 1
    /\ LastHookIsRegister
    /\ rawPlugins # <<>>
    /\ normalizedPlugins = <<PairA, PairB>>
    /\ DOMAIN atRegister = {"a", "c", "svc"}
    /\ "b" \in DOMAIN plugins

(* C20: whenever an init hook is about to be invoked, the key and every     *)
(* provides name of every member of the batch is bound in plugins, and      *)
(* every name that a member depends on is in availablePlugins.              *)

C20_AllRegisteredAtInit ==
    pc = "init"
        => \A x \in 1..Len(normalizedPlugins) :
               LET pair == normalizedPlugins[x]
                   metadata == Metadata(pair.plugin)
               IN  /\ Key(pair) \in DOMAIN plugins
                   /\ Range(metadata.provides) \subseteq DOMAIN plugins
                   /\ Range(metadata.depends) \subseteq Range(availablePlugins)

\* the second init of a first batch [C as k, D]: D depends on svc and c,
\* which the batch itself declares
C20_Witness ==
    /\ pc = "init"
    /\ i = 2
    /\ rawPlugins = <<>>
    /\ Len(normalizedPlugins) = 2
    /\ normalizedPlugins[1].plugin = "C"
    /\ Key(normalizedPlugins[1]) = "k"
    /\ normalizedPlugins[2].plugin = "D"
    /\ {"k", "svc", "d"} \subseteq DOMAIN plugins
    /\ {"svc", "c"} \subseteq Range(availablePlugins)

(* C21: in a call that ran to its end, the metadata of each member of the   *)
(* batch was read once: the name, provides and depends that the dependency  *)
(* check used, those that name registration used and those that the         *)
(* notification snapshot used are one and the same value, also for a plugin *)
(* whose accessor would answer differently on another read.                 *)

C21_MetadataReadOnce ==
    (pc = "idle" /\ result = Returned)
        => \A x \in 1..Len(normalizedPlugins) :
               /\ Len(metadataRead[x]) = 1
               /\ \A j, k \in 1..Len(metadataRead[x]) :
                      Metadata(metadataRead[x][j]) = Metadata(metadataRead[x][k])

(* C22: a step in which a plugin assigns a value to a key of the view it    *)
(* stored, whether the key is bound, unbound or an override key, changes no *)
(* binding of plugins, and every other plugin reads every key through its   *)
(* own view as before.                                                      *)

\* a step of a plugin, not of registerPlugins
NotOfCore == pc' = pc /\ i' = i /\ hookLog' = hookLog /\ result' = result

C22_AssignStep ==
    NotOfCore
        => /\ plugins' = plugins
           /\ \A q \in PluginObjects :
                  written'[q] = written[q]
                      => \A key \in Names : ViewRead(q, key)' = ViewRead(q, key)

C22_ViewWritesLeaveTable == [][C22_AssignStep]_vars

\* C assigned k and plugins on its view and tried svc; the table binds
\* neither k nor plugins, and D reads them as unbound
C22_Witness ==
    /\ DOMAIN written["C"] = {"k", "plugins"}
    /\ core["D"].built
    /\ DOMAIN plugins = {"c", "svc", "d"}
    /\ ViewRead("C", "k") = "w"
    /\ ViewRead("D", "k") = Undefined
    /\ ViewRead("C", "svc") = "C"

(* C23: over any step of any registerPlugins call, whether it returns, is   *)
(* rejected by the dependency check or is ended by a throwing hook, the     *)
(* lists availablePlugins and rawPlugins and every list of dependencyGraph  *)
(* only grow at their end, and no key of dependencyGraph or of plugins is   *)
(* removed.                                                                 *)
C23_AppendStep ==
    /\ IsPrefix(availablePlugins, availablePlugins')
    /\ IsPrefix(rawPlugins, rawPlugins')
    /\ DOMAIN plugins \subseteq DOMAIN plugins'
    /\ \A d \in DOMAIN dependencyGraph :
           /\ d \in DOMAIN dependencyGraph'
           /\ IsPrefix(dependencyGraph[d], dependencyGraph'[d])

C23_AppendOnly == [][C23_AppendStep]_vars

\* a call ended by a throwing register and calls that returned have happened
\* over lists that were not empty
C23_Witness ==
    /\ pc = "idle" /\ result = Returned
    /\ thrown > 0
    /\ Len(rawPlugins) > 1
    /\ Len(registrations) > Len(rawPlugins)
    /\ \E d \in DOMAIN dependencyGraph : Len(dependencyGraph[d]) > 1

(* C24: availability goes by metadata name and provides, never by the      *)
(* custom key: a plugin registered with options.name = k makes its metadata *)
(* name available, not k; a call whose batch depends on k is rejected with  *)
(* the unmet dependency k, even when k is bound in plugins, unless a        *)
(* registered plugin or a member of the batch has k as its metadata name or *)
(* in its provides list, in which case the call is not rejected.            *)
C24_AvailabilityByMetadataName ==
    /\ \A x \in 1..Len(registrations) :
           registrations[x].options.name = "k"
               => Metadata(registrations[x].plugin).name \in Range(availablePlugins)
    /\ "k" \in Range(availablePlugins) <=> "k" \in DeclaredBy(registrations)
    /\ (pc = "idle" /\ "k" \in DependedOnBy(normalizedPlugins))
           => IF "k" \in DeclaredBy(registrations) \cup DeclaredBy(normalizedPlugins)
              THEN result = Returned
              ELSE result = UnmetError(<<"k">>)

\* G, which depends on k, was rejected while k is bound in plugins
C24_Witness ==
    /\ pc = "idle"
    /\ normalizedPlugins = <<[plugin |-> "G", options |-> NoOptions]>>
    /\ result = UnmetError(<<"k">>)
    /\ "k" \in DOMAIN plugins
    /\ plugins["k"] = "C"
    /\ "k" \notin Range(availablePlugins)

(* C25: first-wins protects an alias against later provides entries only:  *)
(* right after the register of a plugin returned, if the key the plugin is  *)
(* exposed under was bound before only as a provides alias of an earlier    *)
(* plugin, or is in the plugin's own provides list, the key resolves to the *)
(* value this plugin's register returned.                                   *)
C25_PrimaryKeyOverAlias ==
    (LastHookIsRegister /\ pc # "idle")
        => LET x == Len(registrations)
               pair == registrations[x]
               s == Key(pair)
               aliasOnly == /\ s \in DOMAIN atRegister
                            /\ ProvidersOf(s) \ {x} # {}
                            /\ RegisteredAs(s) = {x}
           IN  (aliasOnly \/ s \in Range(Metadata(pair.plugin).provides))
                   => /\ s \in DOMAIN plugins
                      /\ plugins[s] = RegisterReturn(pair.plugin)

\* svc was C's alias; E, which provides svc, was then exposed under svc
C25_Witness ==
    /\ LastHookIsRegister /\ pc # "idle"
    /\ registrations[Len(registrations)] =
           [plugin |-> "E", options |-> [name |-> "svc", overrides |-> EmptyObject]]
    /\ RegisteredAs("svc") = {Len(registrations)}
    /\ "svc" \in DOMAIN atRegister
    /\ atRegister["svc"] = "C"
    /\ plugins["svc"] = "E"

(* C26: at every point of every sequence of calls, each name of             *)
(* availablePlugins is bound in plugins or is the metadata name of a plugin *)
(* registered under another options.name; every provides name of every      *)
(* registered plugin is bound; and the names of availablePlugins are the    *)
(* metadata names and provides names of the plugins registered so far.      *)
C26_AvailableNamesBound ==
    /\ \A n \in Range(availablePlugins) :
           \/ n \in DOMAIN plugins
           \/ \E x \in 1..Len(registrations) :
                  /\ Metadata(registrations[x].plugin).name = n
                  /\ registrations[x].options.name \notin {NoName, n}
    /\ \A x \in 1..Len(registrations) :
           Range(Metadata(registrations[x].plugin).provides) \subseteq DOMAIN plugins
    /\ Range(availablePlugins) = DeclaredBy(registrations)

\* C was registered under k only: c is available and not bound, svc is bound
C26_Witness ==
    /\ pc = "idle" /\ result = Returned
    /\ Len(registrations) >= 2
    /\ "c" \in Range(availablePlugins)
    /\ "c" \notin DOMAIN plugins
    /\ "svc" \in DOMAIN plugins
    /\ "e" \in Range(availablePlugins)

(* C27: a call with an empty batch passes the dependency check; no step of  *)
(* it changes plugins, availablePlugins, dependencyGraph or rawPlugins; and *)
(* when it returns it has invoked onPluginRegister once on every record of  *)
(* rawPlugins, in order, and on nothing else, with an empty pluginData.     *)
C27_EmptyStep ==
    ((normalizedPlugins' = <<>> /\ pc' # "idle") \/ (normalizedPlugins = <<>> /\ pc # "idle"))
        => UNCHANGED <<plugins, availablePlugins, dependencyGraph, rawPlugins>>

C27_EmptyCall ==
    normalizedPlugins = <<>>
        => /\ result \in {NoCall, Pending, Returned}
           /\ (pc = "idle" /\ result = Returned)
                  => /\ pluginData = EmptyObject
                     /\ hookLog = [j \in 1..Len(rawPlugins) |->
                                      Hook("onPluginRegister", rawPlugins[j].plugin, j)]

C27_EmptyBatch == [][C27_EmptyStep]_vars /\ []C27_EmptyCall

\* a call with an empty batch returned after notifying two registered plugins
C27_Witness ==
    /\ pc = "idle"
    /\ normalizedPlugins = <<>>
    /\ result = Returned
    /\ Len(rawPlugins) = 2
    /\ Len(hookLog) = 2
    /\ pluginData = EmptyObject

(* C28: when an init or afterInit of a member of the batch, or an           *)
(* onPluginRegister of an earlier plugin, throws, the call ends there: no   *)
(* further hook is invoked and the batch is not appended to rawPlugins,     *)
(* although every member is bound in plugins and recorded in                *)
(* availablePlugins. rawPlugins grows only at the end of a call in which    *)
(* nothing threw, and onPluginRegister is only ever invoked on records of   *)
(* rawPlugins, so the members of such a batch are never notified.           *)
C28_ThrowStep ==
    (thrown' # thrown /\ pc \in {"init", "afterInit", "notify"})
        => /\ pc' = "idle"
           /\ result' = Propagated(IF pc = "notify" THEN "onPluginRegister" ELSE pc)
           /\ rawPlugins' = rawPlugins
           /\ Len(hookLog') = Len(hookLog) + 1
           /\ IsPrefix(hookLog', ExpectedLog(normalizedPlugins, rawPlugins))
           /\ hookLog'[Len(hookLog')].hook = result'.message
           /\ \A x \in 1..Len(normalizedPlugins) :
                  /\ Key(normalizedPlugins[x]) \in DOMAIN plugins'
                  /\ Metadata(normalizedPlugins[x].plugin).name \in Range(availablePlugins')

C28_PushStep ==
    rawPlugins' # rawPlugins
        => /\ pc = "commit"
           /\ result = Pending
           /\ rawPlugins' = rawPlugins \o normalizedPlugins

C28_NotifiedAreCommitted ==
    /\ \A j \in 1..Len(hookLog) :
           hookLog[j].hook = "onPluginRegister"
               => /\ hookLog[j].index <= Len(rawPlugins)
                  /\ hookLog[j].plugin = rawPlugins[hookLog[j].index].plugin
    /\ (pc = "idle" /\ result.status = "propagated")
           => hookLog[Len(hookLog)].hook = result.message

C28_ThrowingHookEndsCall ==
    [][C28_ThrowStep /\ C28_PushStep]_vars /\ []C28_NotifiedAreCommitted

\* T's init threw in its call; U, which depends on t, was then registered by
\* a call that returned without notifying T
C28_Witness ==
    /\ pc = "idle" /\ result = Returned
    /\ thrown = 1
    /\ registrations = <<[plugin |-> "T", options |-> NoOptions],
                         [plugin |-> "U", options |-> NoOptions]>>
    /\ rawPlugins = <<[plugin |-> "U", options |-> NoOptions]>>
    /\ "t" \in DOMAIN plugins
    /\ "t" \in Range(availablePlugins)
    /\ \A j \in 1..Len(hookLog) : hookLog[j].plugin # "T"

(* C29: a call whose batch has a member whose metadata has no `depends`     *)
(* list, as WindowEvents, Base and ExamplePlugin, which list `dependencies` *)
(* instead, throws in the dependency check an error that is not the unmet   *)
(* dependencies error, before any hook is invoked and without changing      *)
(* plugins, availablePlugins, dependencyGraph, rawPlugins or any plugin's   *)
(* view; no such plugin is ever registered.                                 *)
WithoutDepends(batch) ==
    \E x \in 1..Len(batch) : "depends" \notin DOMAIN Metadata(batch[x].plugin)

C29_CallStep ==
    (pc = "idle" /\ WithoutDepends(normalizedPlugins'))
        => /\ pc' = "idle"
           /\ UNCHANGED <<plugins, availablePlugins, dependencyGraph, rawPlugins, core,
                          registrations, calls>>

C29_NeverRegistered ==
    /\ ~WithoutDepends(registrations)
    /\ \A p \in {"WindowEvents", "Base", "ExamplePlugin"} : ~core[p].built
    /\ WithoutDepends(normalizedPlugins)
           => /\ pc = "idle"
              /\ result = ThrownTypeError
              /\ result.message # UnmetError(<<>>).message
              /\ hookLog = <<>>

RegisteredEarlier ==
    SubSeq(registrations, 1, Len(registrations) - Len(normalizedPlugins))

C30_EarlierPluginsNotified ==
    (pc = "idle" /\ result = Returned)
        => /\ Len(rawPlugins) >= Len(normalizedPlugins)
           /\ SubSeq(rawPlugins, Len(rawPlugins) - Len(normalizedPlugins) + 1,
                     Len(rawPlugins)) = normalizedPlugins
           /\ HooksOf(hookLog, "onPluginRegister")
                  = PhaseLog("onPluginRegister", RegisteredEarlier)

====
